---- MODULE Spec2Model ----
(***************************************************************************)
(* canopy_server/app.py: the HTTP facade of Canopy.  The module-level      *)
(* globals kb, context_engine, chat_engine and llm are assigned by the     *)
(* startup hook; the route handlers chat, query, upsert, delete,           *)
(* health_check and shutdown run as tasks of one event loop and hand       *)
(* every collaborator call to the worker thread pool (run_in_threadpool).  *)
(***************************************************************************)
EXTENDS Integers, Sequences, FiniteSets, TLC

VARIABLES
    env,            \* process environment and the outside world met at startup
    proc,           \* name of current_process(), drawn when first read
    workload,       \* the request bodies clients send during this run
    server,         \* "booting" | "serving" | "failed"
    startup_error,  \* class of the exception that ended startup, or "none"
    effects,        \* side effects of startup, in program order
    kb, context_engine, chat_engine, llm,   \* the module globals of lines 62-65
    sigint,         \* pids that os.kill(pid, SIGINT) was delivered to
    issued,         \* values uuid.uuid4() has returned so far
    request,        \* request[r]: body of request r
    pc,             \* pc[r]: where the handler task of r stands
    question_id,    \* question_id[r]: the local of chat (0: not yet bound)
    calls,          \* calls[r]: collaborator calls run for r, in order
    outcomes,       \* outcomes[r]: how each awaited call of r ended, in order
    produced,       \* produced[r]: chunks the engine's lazy sequence has yielded
    emitted,        \* emitted[r]: serialised fragments handed to the SSE transport
    response        \* response[r]: what the caller received

vars == << env, proc, workload, server, startup_error, effects, kb, context_engine,
           chat_engine, llm, sigint, issued, request, pc, question_id, calls,
           outcomes, produced, emitted, response >>

handles == << kb, context_engine, chat_engine, llm >>

(***************************************************************************)
(* Bounds of the model.                                                    *)
(***************************************************************************)
\* Requests of one run under Spec (full workload).
NumReq == 2
\* Requests of one run under LiveSpec (one request body per route).
NumLiveReq == 3
\* Chunks the chat engine's lazy sequence yields at most.
MaxChunks == 2
\* Threads of the pool behind run_in_threadpool (the library default is
\* larger; the model scales it down together with the number of requests).
ThreadTokens == 2

(***************************************************************************)
(* Values.                                                                 *)
(***************************************************************************)
Unset == "<unset>"                      \* os.getenv(...) returning None
FalsyNoneOnly(v) == v = Unset
Falsy(v) == v = Unset \/ v = ""         \* Python's "not v" on Optional[str]

Unbound == [obj |-> "<unbound>"]        \* a global declared but never assigned

ErrorTexts == {"timed out", "quota exceeded"}     \* str(e) of a collaborator error

(***************************************************************************)
(* The environment at startup.  file describes what CANOPY_CONFIG_FILE     *)
(* points to; default_ctor names the default constructor that raises, if   *)
(* any; connect tells whether kb.connect() returns.  What the code does    *)
(* not read on a path takes one value there.                               *)
(***************************************************************************)
ConfigFiles ==
    { "unreadable",        \* open() raises
      "unparsable",        \* yaml.safe_load raises
      "null_document",     \* safe_load returns None (empty file)
      "list_document",     \* safe_load returns a list or a scalar
      "bad_tokenizer",     \* a mapping; Tokenizer.initialize_from_config raises
      "no_chat_engine",    \* a mapping without the key 'chat_engine'
      "bad_chat_engine",   \* ChatEngine.from_config raises
      "valid" }

DefaultCtors ==
    << "Tokenizer.initialize", "KnowledgeBase", "ContextEngine", "OpenAILLM",
       "ChatEngine" >>

ProcNames == {"MainProcess", "SpawnProcess-1"}
Unread == "<unread>"

Environments ==
    \* INDEX_NAME missing
    { [INDEX_NAME |-> i, CANOPY_CONFIG_FILE |-> c,
       file |-> IF c = "canopy.yaml" THEN "valid" ELSE "unreadable",
       default_ctor |-> "none", connect |-> "ok"] :
         i \in {Unset, ""}, c \in {Unset, "canopy.yaml"} }
    \cup
    \* config-file path
    { [INDEX_NAME |-> "canopy--idx", CANOPY_CONFIG_FILE |-> "canopy.yaml",
       file |-> f, default_ctor |-> "none",
       connect |-> IF f = "valid" THEN c ELSE "ok"] :
         f \in ConfigFiles, c \in {"ok", "raises"} }
    \cup
    \* default path
    { [INDEX_NAME |-> "canopy--idx", CANOPY_CONFIG_FILE |-> c, file |-> "unreadable",
       default_ctor |-> d,
       connect |-> IF d = "none" THEN k ELSE "ok"] :
         c \in {Unset, ""},
         d \in {"none"} \cup {DefaultCtors[i] : i \in 1..Len(DefaultCtors)},
         k \in {"ok", "raises"} }

(***************************************************************************)
(* Startup: _init_engines and _load_config as functions from the           *)
(* environment to the globals they leave assigned, the side effects they   *)
(* perform and the exception that leaves them.                             *)
(***************************************************************************)
Globals(k, ce, che, l) ==
    [kb |-> k, context_engine |-> ce, chat_engine |-> che, llm |-> l]

NoGlobals == Globals(Unbound, Unbound, Unbound, Unbound)

Outcome(g, eff, err) == [globals |-> g, effects |-> eff, error |-> err]

\* The collaborators' constructors: a fresh object holding what it was given.
NewKnowledgeBase(index_name) == [obj |-> "KnowledgeBase@1", index_name |-> index_name]
NewContextEngine(k) == [obj |-> "ContextEngine@1", knowledge_base |-> k]
NewOpenAILLM == [obj |-> "LLM@1", class |-> "OpenAILLM"]
NewChatEngine(ce, l) == [obj |-> "ChatEngine@1", context_engine |-> ce, llm |-> l]

\* ChatEngine.from_config: the engine graph the configuration describes.
ChatEngineFromConfig ==
    NewChatEngine(
        NewContextEngine([obj |-> "KnowledgeBase@1", index_name |-> "configured-idx"]),
        [obj |-> "LLM@1", class |-> "AnyscaleLLM"])

\* The context engine of the default path is built on the global kb (line 282).
DefaultContextEngineSplit(k) ==
    NewContextEngine([obj |-> "KnowledgeBase@2", index_name |-> k.index_name])
DefaultContextEngine(k) == NewContextEngine(k)

\* Lines 276-284.  A constructor that raises leaves the globals assigned
\* before it and the later ones unbound.
DefaultEngines(e) ==
    LET k   == NewKnowledgeBase(e.INDEX_NAME)
        ce  == DefaultContextEngine(k)
        l   == NewOpenAILLM
        che == NewChatEngine(ce, l)
        d   == e.default_ctor
        n   == IF d = "none" THEN Len(DefaultCtors) + 1
               ELSE CHOOSE i \in 1..Len(DefaultCtors) : DefaultCtors[i] = d
    IN  Outcome(
          Globals(IF n > 2 THEN k ELSE Unbound,
                  IF n > 3 THEN ce ELSE Unbound,
                  IF n > 5 THEN che ELSE Unbound,
                  IF n > 4 THEN l ELSE Unbound),
          SubSeq(DefaultCtors, 1, IF n > Len(DefaultCtors) THEN Len(DefaultCtors) ELSE n),
          IF d = "none" THEN "none" ELSE "Exception")

IsMapping(f) == f \in {"bad_tokenizer", "no_chat_engine", "bad_chat_engine", "valid"}

\* Lines 289-317.
LoadConfig(e) ==
    LET f == e.file IN
    IF f = "unreadable" THEN
        Outcome(NoGlobals, << "open" >>, "ConfigError")
    ELSE IF f = "unparsable" THEN
        Outcome(NoGlobals, << "open", "yaml.safe_load" >>, "ConfigError")
    ELSE IF ~IsMapping(f) THEN
        \* config.get on None or on a list (line 298)
        Outcome(NoGlobals, << "open", "yaml.safe_load" >>, "AttributeError")
    ELSE IF f = "bad_tokenizer" THEN
        Outcome(NoGlobals,
                << "open", "yaml.safe_load", "Tokenizer.initialize_from_config" >>,
                "Exception")
    ELSE IF f = "no_chat_engine" THEN
        Outcome(NoGlobals,
                << "open", "yaml.safe_load", "Tokenizer.initialize_from_config" >>,
                "ConfigError")
    ELSE IF f = "bad_chat_engine" THEN
        Outcome(NoGlobals,
                << "open", "yaml.safe_load", "Tokenizer.initialize_from_config",
                   "ChatEngine.from_config" >>,
                "ConfigError")
    ELSE
        LET che == ChatEngineFromConfig IN
        Outcome(Globals(che.context_engine.knowledge_base, che.context_engine,
                        che, che.llm),
                << "open", "yaml.safe_load", "Tokenizer.initialize_from_config",
                   "ChatEngine.from_config" >>,
                "none")

\* Line 286, reached only when the engines were built.
Connect(o, e) ==
    IF o.error # "none" THEN o
    ELSE Outcome(o.globals, Append(o.effects, "kb.connect"),
                 IF e.connect = "ok" THEN "none" ELSE "Exception")

\* Lines 264-286.
InitEngines(e) ==
    IF Falsy(e.INDEX_NAME) THEN Outcome(NoGlobals, << >>, "ValueError")
    ELSE IF ~Falsy(e.CANOPY_CONFIG_FILE) THEN Connect(LoadConfig(e), e)
    ELSE Connect(DefaultEngines(e), e)

(***************************************************************************)
(* Requests.                                                               *)
(***************************************************************************)
Reqs == DOMAIN pc

NoRequest == [kind |-> "none"]
NoResponse == [status |-> 0]

QuerySeqs == { << "q1" >>, << "q1", "q2" >>, << "q2", "q1" >> }
DocumentSeqs == { << "a", "a" >>, << "a", "b" >>, << "b", "a" >> }
DocumentIdSeqs == { << "missing-id" >>, << "a", "b" >> }

ChatBodies ==
    { [kind |-> "chat", messages |-> m, stream |-> s] :
        m \in { << >>, << "hello" >> }, s \in BOOLEAN }
QueryBodies ==
    { [kind |-> "query", queries |-> q, max_tokens |-> n] :
        q \in QuerySeqs, n \in {1, 2} }
UpsertBodies ==
    { [kind |-> "upsert", documents |-> d, batch_size |-> n] :
        d \in DocumentSeqs, n \in {1, 2} }
DeleteBodies ==
    { [kind |-> "delete", document_ids |-> d] : d \in DocumentIdSeqs }
HealthBodies == { [kind |-> "health"] }
ShutdownBodies == { [kind |-> "shutdown"] }

AllBodies ==
    ChatBodies \cup QueryBodies \cup UpsertBodies \cup DeleteBodies
        \cup HealthBodies \cup ShutdownBodies

\* One body per route that calls a collaborator (both chat modes).
RouteBodies ==
    { [kind |-> "chat", messages |-> << "hello" >>, stream |-> s] : s \in BOOLEAN }
    \cup { [kind |-> "query", queries |-> << "q1" >>, max_tokens |-> 1],
           [kind |-> "upsert", documents |-> << "a", "b" >>, batch_size |-> 1],
           [kind |-> "delete", document_ids |-> << "missing-id" >>],
           [kind |-> "health"] }

\* Outcomes of one collaborator call.
Returned(v) == [raised |-> FALSE, value |-> v]
Raised(t) == [raised |-> TRUE, text |-> t]
Raises == { Raised(t) : t \in ErrorTexts }

\* What the collaborators hand back.
Context == [content |-> "snippets", debug_info |-> "internal"]
None == [none |-> TRUE]
EngineAnswer == [id |-> -1, choices |-> "answer"]          \* a ChatResponse
EngineChunk(n) == [id |-> 0 - n, seq |-> n]                \* n-th StreamingChatResponse chunk
LazyChunks == [chunks |-> "lazy"]                          \* a StreamingChatResponse

\* HTTPException(status_code=500, detail=...) as the caller sees it.
HTTPException(detail) == [status |-> 500, body |-> [detail |-> detail]]
OK(model) == [status |-> 200, body |-> model]

InternalServiceErrorFixed(text) == HTTPException(<< "Internal Service Error: ", "" >>)
InternalServiceError(text) == HTTPException(<< "Internal Service Error: ", text >>)

(***************************************************************************)
(* The worker thread pool and the event loop.                              *)
(***************************************************************************)
\* Requests whose collaborator call occupies a pool thread.
Busy == { r \in Reqs : pc[r] \in {"in_thread", "hung"} }

\* Whether the handlers run their collaborator call on the event loop itself
\* instead of awaiting run_in_threadpool (lines 88, 129, 159, 183, 202, 212).
InlineCall == TRUE
OnEventLoop == FALSE

\* The event loop can run a step of r's task.
LoopFree(r) ==
    \A q \in Reqs \ {r} : ~(OnEventLoop /\ pc[q] \in {"in_thread", "hung"})

\* The call run_in_threadpool is given, by route and by position in the handler.
ChatCall(b) ==
    [op |-> "chat_engine.chat", on |-> chat_engine.obj,
     args |-> [messages |-> b.messages, stream |-> b.stream]]

Reverse(s) == [i \in 1..Len(s) |-> s[Len(s) + 1 - i]]

QueryCallReversed(b) ==
    [op |-> "context_engine.query", on |-> context_engine.obj,
     args |-> [queries |-> Reverse(b.queries), max_context_tokens |-> b.max_tokens]]
QueryCall(b) ==
    [op |-> "context_engine.query", on |-> context_engine.obj,
     args |-> [queries |-> b.queries, max_context_tokens |-> b.max_tokens]]

UpsertCall(b) ==
    [op |-> "kb.upsert", on |-> kb.obj,
     args |-> [documents |-> b.documents, batch_size |-> b.batch_size]]

DeleteCall(b) ==
    [op |-> "kb.delete", on |-> kb.obj, args |-> [document_ids |-> b.document_ids]]

VerifyCall ==
    [op |-> "kb.verify_index_connection", on |-> kb.obj, args |-> [argc |-> 0]]

CompletionCallRepeatsVerify == VerifyCall
CompletionCall ==
    [op |-> "llm.chat_completion", on |-> llm.obj,
     args |-> [messages |-> << "This is a health check. Are you alive? Be concise" >>,
               max_tokens |-> 50]]

PendingCall(r) ==
    LET b == request[r] IN
    CASE b.kind = "chat"   -> ChatCall(b)
      [] b.kind = "query"  -> QueryCall(b)
      [] b.kind = "upsert" -> UpsertCall(b)
      [] b.kind = "delete" -> DeleteCall(b)
      [] b.kind = "health" -> IF calls[r] = << >> THEN VerifyCall ELSE CompletionCall

(***************************************************************************)
(* What each handler makes of the outcome of its collaborator call.        *)
(***************************************************************************)
\* uuid.uuid4() (line 86): a value never returned before.
uuid4 == {Cardinality(issued) + 1}

\* chunk.id = question_id (line 96) and chat_response.id = question_id (line 105).
StampChunkSkipped(chunk, id) == chunk
StampChunk(chunk, id) == [chunk EXCEPT !.id = id]
StampResponse(answer, id) == [answer EXCEPT !.id = id]

\* chunk.json() (line 97): the fields of the chunk as text.
Json(chunk) == << << "id", chunk.id >>, << "seq", chunk.seq >> >>
FragmentId(data) == data[1][2]
FragmentSeq(data) == data[2][2]

EventSourceResponse(state) ==
    OK([media_type |-> "text/event-stream", stream |-> state])

\* Lines 128-139.
QueryResult(o) ==
    IF o.raised THEN InternalServiceError(o.text) ELSE OK(o.value.content)

\* Lines 157-167.
UpsertResultSwallowed(o) == OK([model |-> "SuccessUpsertResponse"])
UpsertResult(o) ==
    IF o.raised THEN InternalServiceError(o.text)
    ELSE OK([model |-> "SuccessUpsertResponse"])

\* Lines 181-188.
DeleteResult(o) ==
    IF o.raised THEN InternalServiceError(o.text)
    ELSE OK([model |-> "SuccessDeleteResponse"])

\* Lines 203-208.
IndexFailureAsLLM(text) ==
    HTTPException(<< "Failed to communicate with ", llm.class, ". Error: ", text >>)
IndexFailure(text) ==
    HTTPException(<< "Failed connecting to Pinecone Index ", kb.index_name,
                     ". Error: ", text >>)

\* Lines 213-218.
LLMFailure(text) ==
    HTTPException(<< "Failed to communicate with ", llm.class, ". Error: ", text >>)

\* Line 220.
HealthStatus == OK([pinecone_status |-> "OK", llm_status |-> "OK"])

\* Lines 234-235.
ShutdownTarget(name) ==
    IF name = "SpawnProcess-1" THEN "parent pid" ELSE "own pid"

(***************************************************************************)
(* Initial states.                                                         *)
(***************************************************************************)
InitWith(n, bodies, environments) ==
    /\ env \in environments
    /\ proc = Unread
    /\ workload = bodies
    /\ server = "booting"
    /\ startup_error = "none"
    /\ effects = << >>
    /\ kb = Unbound
    /\ context_engine = Unbound
    /\ chat_engine = Unbound
    /\ llm = Unbound
    /\ sigint = {}
    /\ issued = {}
    /\ request = [r \in 1..n |-> NoRequest]
    /\ pc = [r \in 1..n |-> "idle"]
    /\ question_id = [r \in 1..n |-> 0]
    /\ calls = [r \in 1..n |-> << >>]
    /\ outcomes = [r \in 1..n |-> << >>]
    /\ produced = [r \in 1..n |-> 0]
    /\ emitted = [r \in 1..n |-> << >>]
    /\ response = [r \in 1..n |-> NoResponse]

Init == InitWith(NumReq, AllBodies, Environments)

(***************************************************************************)
(* Startup (lines 240-243).                                                *)
(***************************************************************************)
Startup ==
    /\ server = "booting"
    /\ LET o == InitEngines(env) IN
        /\ server' = IF o.error = "none" THEN "serving" ELSE "failed"
        /\ startup_error' = o.error
        /\ effects' = << "_init_logging" >> \o o.effects
        /\ kb' = o.globals.kb
        /\ context_engine' = o.globals.context_engine
        /\ chat_engine' = o.globals.chat_engine
        /\ llm' = o.globals.llm
    /\ UNCHANGED << env, proc, workload, sigint, issued, request, pc, question_id,
                    calls, outcomes, produced, emitted, response >>

(***************************************************************************)
(* The handlers up to their first await.                                   *)
(***************************************************************************)
\* The server dispatches request r, with body b, to its route.
Accept(r, b) ==
    /\ server = "serving"
    /\ pc[r] = "idle"
    /\ \A q \in Reqs : q < r => pc[q] # "idle"
    /\ LoopFree(r)
    /\ b \in workload
    /\ request' = [request EXCEPT ![r] = b]

Unserved == << env, workload, server, startup_error, effects, kb,
               context_engine, chat_engine, llm >>

\* Lines 84-88.
ChatStart(r) ==
    \E b \in ChatBodies, u \in uuid4 :
        /\ Accept(r, b)
        /\ question_id' = [question_id EXCEPT ![r] = u]
        /\ issued' = issued \cup {u}
        /\ IF b.messages = << >>
           THEN /\ pc' = [pc EXCEPT ![r] = "done"]
                /\ response' = [response EXCEPT
                      ![r] = InternalServiceError("list index out of range")]
           ELSE /\ pc' = [pc EXCEPT ![r] = "queued"]
                /\ UNCHANGED response
        /\ UNCHANGED << Unserved, proc, sigint, calls, outcomes, produced, emitted >>

\* Lines 128-129, 157-159, 181-183 and 201-202.
Enqueue(r, bodies) ==
    \E b \in bodies :
        /\ Accept(r, b)
        /\ pc' = [pc EXCEPT ![r] = "queued"]
        /\ UNCHANGED << Unserved, proc, sigint, issued, question_id, calls, outcomes,
                        produced, emitted, response >>

QueryStart(r) == Enqueue(r, QueryBodies)
UpsertStart(r) == Enqueue(r, UpsertBodies)
DeleteStart(r) == Enqueue(r, DeleteBodies)
HealthStart(r) == Enqueue(r, HealthBodies)

\* Lines 233-237.
Shutdown(r) ==
    \E b \in ShutdownBodies, p \in (IF proc = Unread THEN ProcNames ELSE {proc}) :
        /\ Accept(r, b)
        /\ proc' = p
        /\ sigint' = sigint \cup {ShutdownTarget(p)}
        /\ pc' = [pc EXCEPT ![r] = "done"]
        /\ response' = [response EXCEPT ![r] = OK([model |-> "ShutdownResponse"])]
        /\ UNCHANGED << Unserved, issued, question_id, calls, outcomes, produced,
                        emitted >>

(***************************************************************************)
(* The pool runs the call; the call may never return.                      *)
(***************************************************************************)
ThreadStart(r) ==
    /\ pc[r] = "queued"
    /\ LoopFree(r)
    /\ Cardinality(Busy) < ThreadTokens
    /\ pc' = [pc EXCEPT ![r] = "in_thread"]
    /\ calls' = [calls EXCEPT ![r] = Append(@, PendingCall(r))]
    /\ UNCHANGED << Unserved, proc, sigint, issued, request, question_id, outcomes,
                    produced, emitted, response >>

CallHangs(r) ==
    /\ pc[r] = "in_thread"
    /\ pc' = [pc EXCEPT ![r] = "hung"]
    /\ UNCHANGED << Unserved, proc, sigint, issued, request, question_id, calls,
                    outcomes, produced, emitted, response >>

(***************************************************************************)
(* The handlers from the await on.                                         *)
(***************************************************************************)
Awaited(r, kind) ==
    /\ pc[r] = "in_thread"
    /\ request[r].kind = kind
    /\ LoopFree(r)

\* The await of r ends with outcome o; the handler goes on to pc p.
Continue(r, o, p) ==
    /\ pc' = [pc EXCEPT ![r] = p]
    /\ outcomes' = [outcomes EXCEPT ![r] = Append(@, o)]
    /\ UNCHANGED << Unserved, proc, sigint, issued, request, question_id, calls,
                    produced, emitted >>

Finish(r, o, resp) ==
    /\ Continue(r, o, "done")
    /\ response' = [response EXCEPT ![r] = resp]

\* Lines 92-110.
ChatResume(r) ==
    /\ Awaited(r, "chat")
    /\ \E o \in Raises \cup { Returned(IF request[r].stream THEN LazyChunks
                                                          ELSE EngineAnswer) } :
        IF o.raised THEN Finish(r, o, InternalServiceError(o.text))
        ELSE IF request[r].stream THEN
            /\ Continue(r, o, "streaming")
            /\ response' = [response EXCEPT ![r] = EventSourceResponse("open")]
        ELSE Finish(r, o, OK(StampResponse(o.value, question_id[r])))

\* Lines 94-98, driven by the transport after the handler has returned.
StreamNext(r) ==
    /\ pc[r] = "streaming"
    /\ LoopFree(r)
    /\ \/ /\ produced[r] < MaxChunks
          /\ produced' = [produced EXCEPT ![r] = @ + 1]
          /\ emitted' = [emitted EXCEPT ![r] =
                Append(@, Json(StampChunk(EngineChunk(produced[r] + 1),
                                          question_id[r])))]
          /\ UNCHANGED << pc, response >>
       \/ /\ pc' = [pc EXCEPT ![r] = "done"]
          /\ response' = [response EXCEPT ![r] = EventSourceResponse("closed")]
          /\ UNCHANGED << produced, emitted >>
       \/ /\ pc' = [pc EXCEPT ![r] = "done"]
          /\ response' = [response EXCEPT ![r] = EventSourceResponse("aborted")]
          /\ UNCHANGED << produced, emitted >>
    /\ UNCHANGED << Unserved, proc, sigint, issued, request, question_id, calls,
                    outcomes >>

QueryResume(r) ==
    /\ Awaited(r, "query")
    /\ \E o \in Raises \cup { Returned(Context) } : Finish(r, o, QueryResult(o))

UpsertResume(r) ==
    /\ Awaited(r, "upsert")
    /\ \E o \in Raises \cup { Returned(None) } : Finish(r, o, UpsertResult(o))

DeleteResume(r) ==
    /\ Awaited(r, "delete")
    /\ \E o \in Raises \cup { Returned(None) } : Finish(r, o, DeleteResult(o))

\* Lines 201-208: the index probe has ended.
HealthIndexResume(r) ==
    /\ Awaited(r, "health")
    /\ Len(calls[r]) = 1
    /\ \E o \in Raises \cup { Returned(None) } :
        IF o.raised THEN Finish(r, o, IndexFailure(o.text))
        ELSE /\ Continue(r, o, "queued")
             /\ UNCHANGED response

\* Lines 210-220: the completion probe has ended.
HealthLLMResume(r) ==
    /\ Awaited(r, "health")
    /\ Len(calls[r]) = 2
    /\ \E o \in Raises \cup { Returned(EngineAnswer) } :
        IF o.raised THEN Finish(r, o, LLMFailure(o.text)) ELSE Finish(r, o, HealthStatus)

Resume(r) ==
    \/ ChatResume(r)
    \/ QueryResume(r)
    \/ UpsertResume(r)
    \/ DeleteResume(r)
    \/ HealthIndexResume(r)
    \/ HealthLLMResume(r)

\* The steps of the requests that call a collaborator.
Serve ==
    \/ \E r \in Reqs : ChatStart(r)
    \/ \E r \in Reqs : QueryStart(r)
    \/ \E r \in Reqs : UpsertStart(r)
    \/ \E r \in Reqs : DeleteStart(r)
    \/ \E r \in Reqs : HealthStart(r)
    \/ \E r \in Reqs : ThreadStart(r)
    \/ \E r \in Reqs : CallHangs(r)
    \/ \E r \in Reqs : ChatResume(r)
    \/ \E r \in Reqs : QueryResume(r)
    \/ \E r \in Reqs : UpsertResume(r)
    \/ \E r \in Reqs : DeleteResume(r)
    \/ \E r \in Reqs : HealthIndexResume(r)
    \/ \E r \in Reqs : HealthLLMResume(r)
    \/ \E r \in Reqs : StreamNext(r)

Next ==
    \/ Startup
    \/ \E r \in Reqs : Shutdown(r)
    \/ Serve

Spec == Init /\ [][Next]_vars

(***************************************************************************)
(* The server while it is not asked to shut down (/shutdown interrupts the *)
(* process), under one request body per route and more requests, with the  *)
(* scheduling the event loop and the pool provide: a queued call is        *)
(* started when a thread is free, a call that returns resumes its handler, *)
(* and the transport keeps pulling an open stream.                         *)
(***************************************************************************)
ServingEnvironments ==
    { e \in Environments : InitEngines(e).error = "none" /\ e.CANOPY_CONFIG_FILE = Unset }

LiveInit == InitWith(NumLiveReq, RouteBodies, ServingEnvironments)

LiveNext == Startup \/ Serve

LiveSpec ==
    /\ LiveInit
    /\ [][LiveNext]_vars
    /\ WF_vars(Startup)
    /\ \A r \in 1..NumLiveReq :
        /\ WF_vars(ThreadStart(r))
        /\ WF_vars(Resume(r))
        /\ WF_vars(StreamNext(r))

(***************************************************************************)
(* Properties.                                                             *)
(***************************************************************************)
Is(r, kind) == request[r].kind = kind
Completed(r) == pc[r] = "done"
Is500(r, detail) ==
    /\ response[r].status = 500
    /\ response[r].body = [detail |-> detail]
BothUnbound(a, b) == a = Unbound /\ b = Unbound
NoHandleAssigned ==
    BothUnbound(kb, context_engine) /\ BothUnbound(chat_engine, llm)
NothingServed == \A r \in Reqs : pc[r] = "idle" /\ response[r] = NoResponse

\* C1: a completed health check answers {pinecone_status: OK, llm_status: OK}
\* exactly when both probes returned; 500 naming the Pinecone index and the
\* error text when the index probe raised; 500 naming the LLM client's class
\* and the error text when the index probe returned and the completion probe
\* raised.
HealthCheckOutcome ==
    \A r \in Reqs : (Is(r, "health") /\ Completed(r)) =>
        LET o == outcomes[r] IN
        /\ Len(o) \in {1, 2}
        /\ (response[r].status = 200) <=>
              (Len(o) = 2 /\ ~o[1].raised /\ ~o[2].raised)
        /\ response[r].status = 200 =>
              response[r].body = [pinecone_status |-> "OK", llm_status |-> "OK"]
        /\ o[1].raised =>
              Is500(r, << "Failed connecting to Pinecone Index ", kb.index_name,
                          ". Error: ", o[1].text >>)
        /\ (Len(o) = 2 /\ ~o[1].raised /\ o[2].raised) =>
              Is500(r, << "Failed to communicate with ", llm.class,
                          ". Error: ", o[2].text >>)

\* C1 witness: a health check completed after the index probe returned and
\* the completion probe raised.
HealthCheckLLMFailed ==
    \E r \in Reqs :
        /\ Is(r, "health") /\ Completed(r)
        /\ Len(outcomes[r]) = 2 /\ outcomes[r][2].raised
        /\ llm.class = "AnyscaleLLM"

Ops(r) == [i \in 1..Len(calls[r]) |-> calls[r][i].op]

\* C2 as stated: every completed health check has invoked both
\* kb.verify_index_connection and llm.chat_completion.
HealthProbesBoth ==
    \A r \in Reqs : (Is(r, "health") /\ Completed(r)) =>
        Ops(r) = << "kb.verify_index_connection", "llm.chat_completion" >>

\* C2 amended: every completed health check has invoked
\* kb.verify_index_connection once, first, whatever earlier health checks
\* returned; it has invoked llm.chat_completion, once, exactly when the index
\* probe returned.
HealthProbesSequential ==
    \A r \in Reqs : (Is(r, "health") /\ Completed(r)) =>
        IF outcomes[r][1].raised
        THEN Ops(r) = << "kb.verify_index_connection" >>
        ELSE Ops(r) = << "kb.verify_index_connection", "llm.chat_completion" >>

\* C2 witness: after a health check answered OK/OK, a later one has probed
\* both dependencies again.
HealthProbedAgain ==
    \E r, q \in Reqs :
        /\ r < q
        /\ Is(r, "health") /\ Completed(r) /\ response[r].status = 200
        /\ Is(q, "health") /\ Completed(q) /\ Len(calls[q]) = 2

\* C3: with INDEX_NAME unset or empty, startup ends in a fatal error having
\* done nothing but set up logging: no configuration file is read, no
\* collaborator is constructed, kb.connect is not called, and no request
\* handler ever runs.
MissingIndexNameIsFatal ==
    env.INDEX_NAME \in {Unset, ""} =>
        /\ server \in {"booting", "failed"}
        /\ server = "failed" =>
              startup_error = "ValueError" /\ effects = << "_init_logging" >>
        /\ NoHandleAssigned
        /\ NothingServed

\* C3 witness: startup has failed for an empty INDEX_NAME while a
\* configuration file was named.
MissingIndexNameFailed ==
    /\ env.INDEX_NAME = ""
    /\ env.CANOPY_CONFIG_FILE = "canopy.yaml"
    /\ server = "failed"

ListedConfigFailures ==
    { "unreadable", "unparsable", "null_document", "list_document",
      "no_chat_engine", "bad_chat_engine" }

\* C4 as stated: with CANOPY_CONFIG_FILE set, every listed failure of
\* configuration loading ends startup with a ConfigError, no request served
\* and none of the four handles assigned.
ConfigFailureIsConfigError ==
    (env.CANOPY_CONFIG_FILE = "canopy.yaml" /\ env.file \in ListedConfigFailures
        /\ server # "booting") =>
        /\ server = "failed"
        /\ startup_error = "ConfigError"
        /\ NoHandleAssigned
        /\ NothingServed

\* The identifiers the caller of r has received.
IdsCarried(r) ==
    { FragmentId(emitted[r][i]) : i \in 1..Len(emitted[r]) }
    \cup (IF Is(r, "chat") /\ Completed(r) /\ response[r].status = 200
             /\ ~request[r].stream
          THEN {response[r].body.id} ELSE {})

\* C5: whatever a chat response carries as identifier - every fragment of a
\* stream, the body of a plain response - is the identifier generated for its
\* own request, and no two chat requests carry the same identifier, however
\* their handlers and the emission of their fragments interleave.
ResponsesCarryOwnId ==
    \A r \in Reqs :
        /\ IdsCarried(r) \subseteq {question_id[r]} \ {0}
        /\ \A q \in Reqs \ {r} : IdsCarried(r) \cap IdsCarried(q) = {}

\* C5 witness: two streams are open, each with fragments emitted, one of
\* them further along than the other.
TwoStreamsInterleaved ==
    \E r, q \in Reqs :
        /\ r # q
        /\ pc[r] = "streaming" /\ pc[q] = "streaming"
        /\ Len(emitted[r]) = 2 /\ Len(emitted[q]) = 1

Single(r) == Len(calls[r]) <= 1 /\ Len(outcomes[r]) <= Len(calls[r])

\* C6: a query, upsert or delete request runs its collaborator call exactly
\* once, and its answer is decided by how that one call ended: 500 with
\* "Internal Service Error: " and the exception's text if it raised, the
\* success result if it returned - for delete the fixed acknowledgement,
\* whatever identifiers were given.
SingleCallDecides ==
    \A r \in Reqs : request[r].kind \in {"query", "upsert", "delete"} =>
        /\ Single(r)
        /\ Completed(r) =>
            /\ Len(calls[r]) = 1 /\ Len(outcomes[r]) = 1
            /\ IF outcomes[r][1].raised
               THEN Is500(r, << "Internal Service Error: ", outcomes[r][1].text >>)
               ELSE /\ response[r].status = 200
                    /\ Is(r, "query") => response[r].body = "snippets"
                    /\ Is(r, "upsert") =>
                          response[r].body = [model |-> "SuccessUpsertResponse"]
                    /\ Is(r, "delete") =>
                          response[r].body = [model |-> "SuccessDeleteResponse"]

\* C6 witness: a delete of an identifier that does not exist was acknowledged.
DeleteMissingAcknowledged ==
    \E r \in Reqs :
        /\ Is(r, "delete") /\ Completed(r)
        /\ request[r].document_ids = << "missing-id" >>
        /\ response[r].status = 200

\* C7: the context engine's query is called with the request's queries, in
\* their order, and with max_context_tokens equal to the request's max_tokens;
\* the knowledge base's upsert is called with the request's documents, in
\* their order and with duplicates, and with the request's batch_size.
FieldsForwardedUnmodified ==
    \A r \in Reqs : calls[r] # << >> =>
        LET c == calls[r][1] IN
        /\ Is(r, "query") =>
            /\ c.op = "context_engine.query" /\ c.on = context_engine.obj
            /\ c.args = [queries |-> request[r].queries,
                         max_context_tokens |-> request[r].max_tokens]
        /\ Is(r, "upsert") =>
            /\ c.op = "kb.upsert" /\ c.on = kb.obj
            /\ c.args = [documents |-> request[r].documents,
                         batch_size |-> request[r].batch_size]

\* C7 witness: two queries with the same strings in opposite orders and
\* different budgets have both reached the context engine.
OppositeQueriesForwarded ==
    \E r, q \in Reqs :
        /\ Is(r, "query") /\ Is(q, "query")
        /\ calls[r] # << >> /\ calls[q] # << >>
        /\ request[r].queries = << "q1", "q2" >>
        /\ request[q].queries = << "q2", "q1" >>
        /\ request[r].max_tokens # request[q].max_tokens

\* The event stream of r broke off: producing a fragment raised.
Aborted(r) ==
    /\ Is(r, "chat") /\ request[r].stream
    /\ response[r].status = 200
    /\ response[r].body.stream = "aborted"

RaisedInHandler(r) ==
    request[r].messages = << >> \/ (outcomes[r] # << >> /\ outcomes[r][1].raised)

ExceptionText(r) ==
    IF request[r].messages = << >> THEN "list index out of range"
    ELSE outcomes[r][1].text

\* The fragments delivered are the first ones produced, in production order,
\* each once.
InProductionOrder(r) ==
    \A i \in 1..Len(emitted[r]) : FragmentSeq(emitted[r][i]) = i

NoEmissionAfterTheEnd ==
    \A r \in Reqs : pc[r] = "done" => emitted'[r] = emitted[r]

\* C8 as stated: a chat request that met an exception answers 500 with the
\* exception's text and delivers nothing, unless it is a stream whose later
\* fragment failed after earlier fragments were emitted.
ChatFailureIs500UnlessLaterFragment ==
    \A r \in Reqs : (Is(r, "chat") /\ Completed(r)
                        /\ (RaisedInHandler(r) \/ Aborted(r))) =>
        \/ /\ Is500(r, << "Internal Service Error: ", ExceptionText(r) >>)
           /\ emitted[r] = << >>
        \/ /\ Aborted(r)
           /\ Len(emitted[r]) >= 1
           /\ InProductionOrder(r)

ChatFailureSurfacesState ==
    \A r \in Reqs : (Is(r, "chat") /\ Completed(r)
                        /\ (RaisedInHandler(r) \/ Aborted(r))) =>
        IF RaisedInHandler(r)
        THEN /\ Is500(r, << "Internal Service Error: ", ExceptionText(r) >>)
             /\ emitted[r] = << >>
        ELSE /\ response[r].status # 500
             /\ Len(emitted[r]) = produced[r]
             /\ InProductionOrder(r)

\* C8 amended: an exception raised before the handler returns - by the
\* request itself or by chat_engine.chat - answers 500 with the exception's
\* text and delivers nothing.  An exception raised while a fragment of a
\* stream is produced, the first fragment included, comes after the handler
\* has returned the event stream: no 500 is answered, the fragments emitted
\* before it (possibly none) stay delivered in production order, each once,
\* and none is emitted afterwards.
ChatFailureSurfaces ==
    /\ []ChatFailureSurfacesState
    /\ [][NoEmissionAfterTheEnd]_vars

\* C8 witness: a stream broke off after its first fragment was emitted.
StreamBrokeAfterFirstFragment ==
    \E r \in Reqs : Is(r, "chat") /\ Completed(r) /\ Aborted(r) /\ Len(emitted[r]) = 1

Bound(h) == h # Unbound

StartupCompleted ==
    /\ server = "serving"
    /\ startup_error = "none"
    /\ Bound(kb) /\ Bound(context_engine) /\ Bound(chat_engine) /\ Bound(llm)
    /\ chat_engine.context_engine = context_engine
    /\ chat_engine.llm = llm
    /\ context_engine.knowledge_base = kb
    /\ effects[Len(effects)] = "kb.connect"

HandlersRunAfterStartup ==
    \A r \in Reqs : pc[r] # "idle" => StartupCompleted

HandlesKept == server = "serving" => handles' = handles

\* C10: whenever a handler is running, startup has completed: the four
\* handles are assigned, chat_engine's context engine and LLM and that
\* context engine's knowledge base are the handles context_engine, llm and
\* kb, and kb.connect has returned; and no step of any request reassigns a
\* handle.
HandlesAssignedOnceAndShared ==
    /\ []HandlersRunAfterStartup
    /\ [][HandlesKept]_vars

\* C10 witness: on the default path, a collaborator call is running while a
\* shutdown request has been answered.
CallRunningAfterShutdown ==
    \E r, q \in Reqs :
        /\ Falsy(env.CANOPY_CONFIG_FILE)
        /\ Is(q, "shutdown") /\ Completed(q)
        /\ pc[r] = "in_thread"

(***************************************************************************)
(* Progress under LiveSpec.                                                *)
(***************************************************************************)
Hung == { r \in Reqs : pc[r] = "hung" }
InFlight(r) == pc[r] \in {"queued", "in_thread", "streaming"}
Settled(r) == pc[r] \in {"done", "hung"}

\* A request whose call never returns is never answered.
HungStays ==
    \A r \in Reqs : pc[r] = "hung" => pc'[r] = "hung" /\ response'[r] = NoResponse

EveryOtherRequestCompletes ==
    \A r \in 1..NumLiveReq : InFlight(r) ~> Settled(r)

\* C9 as stated: a request suspended on a call that never returns never
\* completes, and every request in flight whose own calls return eventually
\* completes, for any number of requests in flight.
NeverBlockedForAnyNumber ==
    /\ [][HungStays]_vars
    /\ EveryOtherRequestCompletes

\* C9 amended: a request suspended on a call that never returns never
\* completes; as long as the calls that never return hold fewer threads than
\* the pool has, every request in flight whose own calls return eventually
\* completes.
NeverBlockedWhileThreadsRemain ==
    /\ [][HungStays]_vars
    /\ ([](Cardinality(Hung) < ThreadTokens)) => EveryOtherRequestCompletes

\* C9 witness: a request that arrived after one whose call never returns has
\* run its own call and completed.
CompletedBesideHung ==
    \E r, q \in Reqs :
        /\ r < q
        /\ pc[r] = "hung"
        /\ Completed(q) /\ calls[q] # << >>

====
